---- MODULE Spec2Model ----
(***************************************************************************)
(* LogRetriever (src/src/main.py): extraction of the log lines of one date *)
(* from a memory-mapped log file.                                          *)
(*                                                                         *)
(* The mapped file is kept as its sequence of lines.  A line is            *)
(*   lead  bytes of leading white space,                                   *)
(*   DateLen bytes of date (the token 'date'),                             *)
(*   pay   bytes of opaque payload (no newline, no white space, and        *)
(*         ending in a byte that is not valid UTF-8 when ok is FALSE),     *)
(*   one newline byte when nl is TRUE.                                     *)
(* Byte offsets are the integers of the program; every byte the program    *)
(* looks at (the newline before a position, the first bytes of a line) is  *)
(* determined by this representation.                                      *)
(***************************************************************************)
EXTENDS Integers, Sequences, FiniteSets, TLC

\* Bound of the model: the number of lines of a generated file.
MaxLines == 3

\* file_size // 365 (binary_search_position).
DaysPerYear == 365
\* day_size // 10 (refine_search).
StrideDiv == 10
\* Length in bytes of a date 'YYYY-MM-DD'.
DateLen == 10

\* Dates in calendar order.
Dates == 1..3
\* Target date strings: the dates, and 0 for a string strptime rejects.
Targets == 0..3
\* Payload lengths: a short line (12 bytes with its newline) and a long one
\* (47450 = 365 * 130 bytes with its newline, which makes the stride 13).
Pays == {1, 47439}
\* (target date - January 1 of the current year) in days.
DaysDiffs == {-1, 365, 366}

VARIABLES
  mm,           \* the bytes of the input file, as its lines
  target_date,  \* the target date string
  days_diff,    \* days from January 1 of the current year to the target
  pc,           \* position in extract_logs
  mapped,       \* the memory map: "none", "open" or "closed"
  initial_pos,  \* refine_search: the aligned estimate
  start_pos,    \* refine_search / extract_logs
  end_pos,      \* refine_search / extract_logs
  tell,         \* mm.tell(): the position of the map
  out_file,     \* whether the output file has been opened (created)
  output,       \* the lines written to the output file, in order
  result,       \* what extract_logs returned: "none", "True" or "False"
  fnls_pos,     \* argument of the last call of find_nearest_line_start
  fnls_ret      \* what that call returned

vars == <<mm, target_date, days_diff, pc, mapped, initial_pos, start_pos,
          end_pos, tell, out_file, output, result, fnls_pos, fnls_ret>>

-----------------------------------------------------------------------------
\* The file as bytes.

Line(d, l, o, p, n) == [date |-> d, lead |-> l, ok |-> o, pay |-> p, nl |-> n]

LineLen(l) == l.lead + DateLen + l.pay + (IF l.nl THEN 1 ELSE 0)

RECURSIVE LineStart(_, _)
\* Offset of the first byte of line i (of the end of the file for i = Len + 1).
LineStart(f, i) == IF i <= 1 THEN 0 ELSE LineStart(f, i - 1) + LineLen(f[i - 1])

LineEnd(f, i) == LineStart(f, i) + LineLen(f[i])

\* len(mm)
FileSize(f) == LineStart(f, Len(f) + 1)

\* mm[p:p+1] == b'\n'
IsNewline(f, p) == \E i \in 1..Len(f) : f[i].nl /\ p = LineEnd(f, i) - 1

\* A line start: 0, or a position right after a newline.
Aligned(f, p) == p = 0 \/ IsNewline(f, p - 1)

SetMax(S) == CHOOSE x \in S : \A y \in S : y <= x

\* The line holding byte p, 0 <= p < FileSize(f).
LineAt(f, p) == CHOOSE i \in 1..Len(f) : LineStart(f, i) <= p /\ p < LineEnd(f, i)

-----------------------------------------------------------------------------
\* find_nearest_line_start

\* find_nearest_line_start without its bound checking.
FindNearestNoClamp(f, pos) ==
  SetMax({0} \cup {LineEnd(f, i) : i \in {j \in 1..Len(f) : f[j].nl /\ LineEnd(f, j) <= pos}})

\* Bound checking, then the backward walk: pos is decremented while pos > 0
\* and the byte before it is not a newline, which ends at the greatest line
\* start that is not after pos.
find_nearest_line_start(f, pos) ==
  LET size == FileSize(f)
      p1 == IF pos >= size THEN size - 1 ELSE pos
      p2 == IF p1 < 0 THEN 0 ELSE p1
  IN SetMax({0} \cup {LineEnd(f, i) : i \in {j \in 1..Len(f) : f[j].nl /\ LineEnd(f, j) <= p2}})

-----------------------------------------------------------------------------
\* mm.seek(pos); mm.readline(), and what is done with the bytes read.

\* The bytes from pos to the end of its line: the line and the bytes of it
\* that are skipped; idx = 0 is b'' (pos at the end of the file).
ReadLine(f, pos) ==
  IF pos >= FileSize(f) THEN [idx |-> 0, skip |-> 0]
  ELSE LET i == LineAt(f, pos) IN [idx |-> i, skip |-> pos - LineStart(f, i)]

\* mm.tell() after the readline.
AfterLine(f, pos) == IF pos >= FileSize(f) THEN FileSize(f) ELSE LineEnd(f, LineAt(f, pos))

\* .decode('utf-8') raises UnicodeDecodeError when the bytes read hold the
\* invalid byte (the last byte of the payload of a line that is not ok).
DecodeOk(f, t) ==
  t.idx = 0 \/ f[t.idx].ok \/ t.skip >= f[t.idx].lead + DateLen + f[t.idx].pay

\* The test of the extraction scan made on the stripped line, as in refine_search.
StartsWithStripped(f, t, target) ==
  t.idx # 0 /\ t.skip <= f[t.idx].lead /\ f[t.idx].date = target

\* line.startswith(target_date): the bytes read begin at the date.
StartsWith(f, t, target) ==
  t.idx # 0 /\ t.skip = f[t.idx].lead /\ f[t.idx].date = target

\* The test of refine_search inverted: break on a line of the target date.
NotStripStartsWith(f, t, target) ==
  ~(t.idx # 0 /\ t.skip <= f[t.idx].lead /\ f[t.idx].date = target)

\* line.strip().startswith(target_date): leading white space is dropped first.
StripStartsWith(f, t, target) ==
  t.idx # 0 /\ t.skip <= f[t.idx].lead /\ f[t.idx].date = target

\* A parse that accepts every string.
ValidDateAny(target) == target = target

\* datetime.strptime(target_date, '%Y-%m-%d') succeeds.
ValidDate(target) == target \in Dates

\* file_size // 365
DaySize(f) == FileSize(f) \div DaysPerYear

\* day_size // 10
Stride(f) == DaySize(f) \div StrideDiv

-----------------------------------------------------------------------------
\* The files of the model.

\* Where the one line that is not plain is, and what it is.
Specials(n) == {<<0, "plain">>} \cup ((1..n) \X {"lead", "bad"})

\* A file whose lines are all plain may end without a newline.
Ends(n, sp) == IF n > 0 /\ sp[1] = 0 THEN BOOLEAN ELSE {TRUE}

\* The file of n lines with dates d, payloads p, the line sp not plain, and
\* the last line ending with a newline or not (e).
FileOf(n, d, p, sp, e) ==
  [i \in 1..n |->
     Line(d[i],
          IF sp = <<i, "lead">> THEN 1 ELSE 0,
          sp # <<i, "bad">>,
          p[i],
          i < n \/ e)]

\* The file of the concrete scenario: four lines of 27 bytes, dated
\* 2024-12-01, 2024-12-02, 2024-12-02, 2024-12-03.
ScenarioFile ==
  << Line(1, 0, TRUE, 16, TRUE), Line(2, 0, TRUE, 16, TRUE),
     Line(2, 0, TRUE, 16, TRUE), Line(3, 0, TRUE, 16, TRUE) >>

\* The input file is one of the files of at most MaxLines lines, or the file
\* of the scenario.
InputFile(f) ==
  \/ \E n \in 0..MaxLines :
       \E d \in [1..n -> Dates], p \in [1..n -> Pays], sp \in Specials(n) :
         \E e \in Ends(n, sp) : f = FileOf(n, d, p, sp, e)
  \/ f = ScenarioFile

-----------------------------------------------------------------------------

Init ==
  /\ InputFile(mm)
  /\ target_date \in Targets
  /\ days_diff \in (IF ValidDate(target_date) THEN DaysDiffs ELSE {0})
  /\ pc = "open"
  /\ mapped = "none"
  /\ initial_pos = 0
  /\ start_pos = 0
  /\ end_pos = 0
  /\ tell = 0
  /\ out_file = FALSE
  /\ output = <<>>
  /\ result = "none"
  /\ fnls_pos = 0
  /\ fnls_ret = 0

\* except Exception: logging.error(...); return False.  The map, when one was
\* created, is not closed by the handler: it is released when the interpreter
\* collects the object, which may or may not have happened by the return.
Raise ==
  /\ pc' = "done"
  /\ result' = "False"
  /\ mapped' \in (IF mapped = "open" THEN {"open", "closed"} ELSE {mapped})

\* extract_logs: os.makedirs, open(self.filename, 'rb'), mmap.mmap(...).
\* mmap raises ValueError for an empty file.
Mmap ==
  /\ pc = "open"
  /\ IF FileSize(mm) = 0
       THEN /\ Raise
       ELSE /\ mapped' = "open"
            /\ pc' = "estimate"
            /\ result' = result
  /\ UNCHANGED <<mm, target_date, days_diff, initial_pos, start_pos, end_pos,
                 tell, out_file, output, fnls_pos, fnls_ret>>

\* binary_search_position up to the call of refine_search, and the early
\* return of extract_logs when it yields (None, None).
BinarySearchPosition ==
  /\ pc = "estimate"
  /\ IF ~ValidDate(target_date)
       THEN /\ pc' = "done"
            /\ result' = "False"
            /\ mapped' \in {"open", "closed"}
            /\ UNCHANGED <<initial_pos, start_pos, fnls_pos, fnls_ret>>
       ELSE LET pos == days_diff * DaySize(mm)
                p == find_nearest_line_start(mm, pos)
            IN /\ fnls_pos' = pos
               /\ fnls_ret' = p
               /\ initial_pos' = p
               /\ start_pos' = p
               /\ pc' = "back"
               /\ UNCHANGED <<result, mapped>>
  /\ UNCHANGED <<mm, target_date, days_diff, end_pos, tell, out_file, output>>

\* refine_search, first loop: the test while start_pos > 0 and
\* mm.seek(start_pos); after the loop, end_pos = initial_pos.
BackwardSeek ==
  /\ pc = "back"
  /\ IF start_pos > 0
       THEN /\ tell' = start_pos
            /\ pc' = "back_line"
            /\ UNCHANGED end_pos
       ELSE /\ pc' = "forward"
            /\ end_pos' = initial_pos
            /\ UNCHANGED tell
  /\ UNCHANGED <<mm, target_date, days_diff, mapped, initial_pos, start_pos,
                 out_file, output, result, fnls_pos, fnls_ret>>

\* refine_search, first loop: the line is read, decoded, stripped and tested,
\* and start_pos is moved back by the stride and aligned.
BackwardLine ==
  /\ pc = "back_line"
  /\ tell' = AfterLine(mm, tell)
  /\ LET t == ReadLine(mm, tell) IN
     IF ~DecodeOk(mm, t)
       THEN /\ Raise
            /\ UNCHANGED <<start_pos, end_pos, fnls_pos, fnls_ret>>
       ELSE IF ~StripStartsWith(mm, t, target_date)
         THEN /\ pc' = "forward"
              /\ end_pos' = initial_pos
              /\ UNCHANGED <<start_pos, fnls_pos, fnls_ret, result, mapped>>
         ELSE LET pos == start_pos - Stride(mm)
                  p == find_nearest_line_start(mm, pos)
              IN /\ fnls_pos' = pos
                 /\ fnls_ret' = p
                 /\ start_pos' = p
                 /\ pc' = "back"
                 /\ UNCHANGED <<end_pos, result, mapped>>
  /\ UNCHANGED <<mm, target_date, days_diff, initial_pos, out_file, output>>

\* refine_search, second loop: the test while end_pos < file_size and
\* mm.seek(end_pos); after the loop, return start_pos, end_pos.
ForwardSeek ==
  /\ pc = "forward"
  /\ IF end_pos < FileSize(mm)
       THEN /\ tell' = end_pos
            /\ pc' = "forward_line"
       ELSE /\ pc' = "write"
            /\ UNCHANGED tell
  /\ UNCHANGED <<mm, target_date, days_diff, mapped, initial_pos, start_pos,
                 end_pos, out_file, output, result, fnls_pos, fnls_ret>>

\* refine_search, second loop: the line is read, decoded, stripped and
\* tested, and end_pos is moved forward by the stride and aligned.
ForwardLine ==
  /\ pc = "forward_line"
  /\ tell' = AfterLine(mm, tell)
  /\ LET t == ReadLine(mm, tell) IN
     IF ~DecodeOk(mm, t)
       THEN /\ Raise
            /\ UNCHANGED <<end_pos, fnls_pos, fnls_ret>>
       ELSE IF ~StripStartsWith(mm, t, target_date)
         THEN /\ pc' = "write"
              /\ UNCHANGED <<end_pos, fnls_pos, fnls_ret, result, mapped>>
         ELSE LET pos == end_pos + Stride(mm)
                  p == find_nearest_line_start(mm, pos)
              IN /\ fnls_pos' = pos
                 /\ fnls_ret' = p
                 /\ end_pos' = p
                 /\ pc' = "forward"
                 /\ UNCHANGED <<result, mapped>>
  /\ UNCHANGED <<mm, target_date, days_diff, initial_pos, start_pos, out_file, output>>

\* extract_logs: open(output_file, 'w'); mm.seek(start_pos).
OpenOutput ==
  /\ pc = "write"
  /\ out_file' = TRUE
  /\ output' = <<>>
  /\ tell' = start_pos
  /\ pc' = "scan"
  /\ UNCHANGED <<mm, target_date, days_diff, mapped, initial_pos, start_pos,
                 end_pos, result, fnls_pos, fnls_ret>>

\* extract_logs: one test of while mm.tell() < end_pos, and its body.
ScanStep ==
  /\ pc = "scan"
  /\ IF tell < end_pos
       THEN LET t == ReadLine(mm, tell) IN
            IF ~DecodeOk(mm, t)
              THEN /\ Raise
                   /\ tell' = AfterLine(mm, tell)
                   /\ UNCHANGED output
              ELSE /\ tell' = AfterLine(mm, tell)
                   /\ output' = IF StartsWith(mm, t, target_date)
                                  THEN Append(output, [off |-> tell, idx |-> t.idx, skip |-> t.skip])
                                  ELSE output
                   /\ UNCHANGED <<pc, result, mapped>>
       ELSE /\ pc' = "close"
            /\ UNCHANGED <<tell, output, result, mapped>>
  /\ UNCHANGED <<mm, target_date, days_diff, initial_pos, start_pos, end_pos,
                 out_file, fnls_pos, fnls_ret>>

\* extract_logs: mm.close(); return True.
Close ==
  /\ pc = "close"
  /\ mapped' = "closed"
  /\ result' = "True"
  /\ pc' = "done"
  /\ UNCHANGED <<mm, target_date, days_diff, initial_pos, start_pos, end_pos,
                 tell, out_file, output, fnls_pos, fnls_ret>>

Next ==
  \/ Mmap
  \/ BinarySearchPosition
  \/ BackwardSeek
  \/ BackwardLine
  \/ ForwardSeek
  \/ ForwardLine
  \/ OpenOutput
  \/ ScanStep
  \/ Close

Spec == Init /\ [][Next]_vars

\* The program is one thread that runs until extract_logs returns.
FairSpec == Spec /\ WF_vars(Next)

-----------------------------------------------------------------------------
\* What the properties speak of.

\* The dates of the lines never decrease.
Sorted(f) == \A i \in 1..(Len(f) - 1) : f[i].date <= f[i + 1].date

\* Line i begins with the target date string.
Begins(f, i, target) == f[i].lead = 0 /\ f[i].date = target

TargetLines(f, target) == {i \in 1..Len(f) : Begins(f, i, target)}

\* The lines that begin with the target date, in file order.
ExpectedLines(f, target) ==
  SelectSeq([i \in 1..Len(f) |-> i], LAMBDA i : Begins(f, i, target))

\* The lines written, as whole lines of the file (0 for a part of a line).
WrittenLines == [k \in 1..Len(output) |-> IF output[k].skip = 0 THEN output[k].idx ELSE 0]

\* The bound checking of find_nearest_line_start.
Clamped(f, pos) ==
  LET p1 == IF pos >= FileSize(f) THEN FileSize(f) - 1 ELSE pos
  IN IF p1 < 0 THEN 0 ELSE p1

\* One block of lines of the target date with lines of other dates around it.
OneBlock(f, target) ==
  /\ Len(f) > 0
  /\ Sorted(f)
  /\ TargetLines(f, target) # {}
  /\ f[1].date < target
  /\ f[Len(f)].date > target

\* Every line is UTF-8 text that begins with its date.
PlainText(f) == \A i \in 1..Len(f) : f[i].ok /\ f[i].lead = 0

Returned == pc \in {"write", "scan", "close"}

-----------------------------------------------------------------------------

\* C1: for a date-sorted file holding one block of lines of the target date
\* between lines of other dates, extract_logs writes exactly the lines of the
\* block, in order and unchanged, and returns True (stated here for files
\* of plain UTF-8 text, which the claim includes).
C1_ExactBlock ==
  (pc = "done" /\ ValidDate(target_date) /\ PlainText(mm) /\ OneBlock(mm, target_date))
    => (result = "True" /\ WrittenLines = ExpectedLines(mm, target_date))

\* C2: for every non-empty file and valid target date extract_logs terminates:
\* both loops of refine_search and the extraction scan come to an end.
C2_Terminates ==
  (FileSize(mm) > 0 /\ ValidDate(target_date)) => <>(pc = "done")

\* C3: for a non-empty file none of whose lines begins with the (valid)
\* target date, extract_logs returns True and has written nothing.
C3_AbsentSucceeds ==
  (pc = "done" /\ FileSize(mm) > 0 /\ ValidDate(target_date)
     /\ TargetLines(mm, target_date) = {})
    => (result = "True" /\ output = <<>>)

\* C4: for a date-sorted file whose first or last line has the target date,
\* the output holds every line that begins with the target date (stated here
\* for files of plain UTF-8 text, which the claim includes).
C4_BoundaryComplete ==
  (pc = "done" /\ Len(mm) > 0 /\ ValidDate(target_date) /\ PlainText(mm) /\ Sorted(mm)
     /\ (mm[1].date = target_date \/ mm[Len(mm)].date = target_date))
    => \A i \in TargetLines(mm, target_date) :
         \E k \in 1..Len(output) : output[k].idx = i /\ output[k].skip = 0

\* C5: on a non-empty file find_nearest_line_start returns a line start p
\* with 0 <= p <= length - 1 that is not after the clamped argument (its
\* callers are binary_search_position and the two loops of refine_search).
C5_LineStart ==
  (pc \in {"back", "forward"} /\ FileSize(mm) > 0) =>
    /\ 0 <= fnls_ret
    /\ fnls_ret <= FileSize(mm) - 1
    /\ Aligned(mm, fnls_ret)
    /\ fnls_ret <= Clamped(mm, fnls_pos)

\* A call with an argument beyond the file that returned a later line.
C5_Witness ==
  pc \in {"back", "forward"} /\ FileSize(mm) > 0 /\ fnls_pos >= FileSize(mm) /\ fnls_ret > 0

\* C6: find_nearest_line_start returns an aligned argument in 0..length
\* unchanged (length included, when the file ends with a newline).
C6_Idempotent ==
  (pc # "open" /\ pc # "estimate" /\ 0 <= fnls_pos /\ fnls_pos <= FileSize(mm)
     /\ Aligned(mm, fnls_pos))
    => fnls_ret = fnls_pos

\* C7: with an empty file or a target date that does not parse, extract_logs
\* returns False, never reaches the search, and the output file is not
\* created.
C7_FailsWithoutOutput ==
  (FileSize(mm) = 0 \/ ~(target_date \in Dates)) =>
    /\ pc \in {"open", "estimate", "done"}
    /\ ~out_file
    /\ output = <<>>
    /\ pc = "done" => result = "False"

\* A target date that does not parse, on a file that was mapped.
C7_Witness ==
  pc = "done" /\ ~(target_date \in Dates) /\ mapped # "none" /\ result = "False"

\* C8: the output written so far is made of whole lines of the file that
\* begin with the target date, each starting in [start_pos, end_pos), in
\* strictly increasing order of offset.
C8_OutputLines ==
  /\ \A k \in 1..Len(output) :
       /\ output[k].idx \in 1..Len(mm)
       /\ output[k].skip = 0
       /\ output[k].off = LineStart(mm, output[k].idx)
       /\ Begins(mm, output[k].idx, target_date)
       /\ start_pos <= output[k].off
       /\ output[k].off < end_pos
  /\ \A k \in 1..(Len(output) - 1) : output[k].off < output[k + 1].off

\* Two lines have been written and the scan has come to its end.
C8_Witness ==
  pc = "close" /\ Len(output) >= 2 /\ start_pos < initial_pos

\* C9: on a date-sorted file, when the line at the aligned estimate begins
\* with the target date and refine_search returns, start_pos <= estimate <=
\* end_pos, both are line starts, and every line that begins with the target
\* date starts in [start_pos, end_pos).
C9_Bracket ==
  (Returned /\ Sorted(mm)
     /\ Begins(mm, LineAt(mm, initial_pos), target_date))
    => /\ start_pos <= initial_pos
       /\ initial_pos <= end_pos
       /\ Aligned(mm, start_pos)
       /\ Aligned(mm, end_pos)
       /\ \A i \in TargetLines(mm, target_date) :
            start_pos <= LineStart(mm, i) /\ LineStart(mm, i) < end_pos

\* refine_search has returned a range that both loops had to widen.
C9_Witness ==
  /\ pc = "write"
  /\ Sorted(mm)
  /\ Begins(mm, LineAt(mm, initial_pos), target_date)
  /\ start_pos < initial_pos
  /\ initial_pos < end_pos

\* C10: once a memory map was created, it is closed when extract_logs
\* returns.
C10_MapClosed ==
  (pc = "done" /\ mapped # "none") => mapped = "closed"

====
